---------------------------- MODULE Spec2Model ----------------------------
(***************************************************************************)
(* Model of core.App (gocondor/condor): App.Run and the helpers it calls   *)
(* (IntegratePackages, registerRoutes, handleRoute, getHTTPSHost,          *)
(* getHTTPHost).  A gin engine is modelled by the calls made on it: the    *)
(* handlers passed to Use, the (verb, path, handlers) registrations and    *)
(* the address passed to Run / RunTLS.                                     *)
(***************************************************************************)
EXTENDS Integers, Sequences, FiniteSets, TLC

VARIABLES
    env,              \* process environment: variable name -> value ("" = unset)
    integrations,     \* pkgintegrator.Resolve().GetIntegrations()
    routes,           \* routing.ResolveRouter().GetRoutes()
    pc,               \* position of the main path inside Run
    cur,              \* engine IntegratePackages / registerRoutes is working on
    i,                \* index of the range loop in progress
    portArg,          \* Run's parameter as the caller passed it
    portNumber,       \* Run's parameter, after the fallback of line 75
    logsFile,         \* "unopened" | "open" | "failed" | "closed"
    httpsOn,          \* local httpsOn of Run
    redirectToHTTPS,  \* local redirectToHTTPS of Run
    ginEngine,        \* the three engines of Run, by variable name
    tlsTask           \* the goroutine of line 101

vars == <<env, integrations, routes, pc, cur, i, portArg, portNumber, logsFile,
          httpsOn, redirectToHTTPS, ginEngine, tlsTask>>

----------------------------------------------------------------------------
(* Bounds *)

MaxRoutes == 2
MaxIntegrations == 2

----------------------------------------------------------------------------
(* Input domains *)

EnvKeys == {"APP_HTTPS_ON", "APP_REDIRECT_HTTP_TO_HTTPS", "APP_HTTPS_CERT_FILE_PATH",
            "APP_HTTPS_KEY_FILE_PATH", "APP_HTTPS_HOST", "APP_HTTP_HOST"}

HttpsOnValues == {"", "true", "1", "false", "yes"}
RedirectValues == {"", "true"}
HttpsHostValues == {"", "secure.example"}
HttpHostValues == {"", "plain.example"}
PortValues == {"", "80", "8080"}

RecognizedMethods == {"get", "post", "delete", "patch", "put", "options", "head"}
OtherMethods == {"", "GET", "Get"}

Route(m, p, hs) == [Method |-> m, Path |-> p, Handlers |-> hs]

\* three routes, one of them with a method handleRoute does not recognize
FewRoutes == {Route("get", "/a", <<"auth", "show">>),
              Route("GET", "/b", <<"index">>),
              Route("post", "/a", <<"auth", "store">>)}

\* one route per method string, recognized or not
PathOf(m) == IF m \in {"get", "delete", "put", "head", "GET"} THEN "/a" ELSE "/b"
HandlersOf(m) == IF m \in {"get", "post", "patch", "options", "Get"}
                 THEN <<"auth", "show">> ELSE <<"index">>
AllMethodRoutes == {Route(m, PathOf(m), HandlersOf(m)) : m \in RecognizedMethods \cup OtherMethods}

IntegrationNames == {"cors", "session"}

\* sequences over S of length at most n
RECURSIVE SeqsUpTo(_, _)
SeqsUpTo(S, n) ==
    IF n = 0 THEN {<<>>}
    ELSE LET shorter == SeqsUpTo(S, n - 1)
         IN  shorter \cup {Append(s, x) : s \in {t \in shorter : Len(t) = n - 1},
                                            x \in S}

\* the route lists considered hold no route twice (gin refuses to register a
\* verb and path a second time)
NoRepeat(s) == \A a, b \in DOMAIN s : a # b => s[a] # s[b]

EngineNames == {"httpGinEngine", "httpsGinEngine", "redirectEngine"}

\* an engine nothing was called on yet; state "none" is a variable not yet assigned
NoEngine == [state |-> "none", uses |-> <<>>, regs |-> <<>>, addr |-> ""]
NewEngine == [NoEngine EXCEPT !.state = "created"]

NoTask == [state |-> "none", host |-> "", certFile |-> "", keyFile |-> ""]

----------------------------------------------------------------------------
(* Pure helpers *)

\* os.Getenv: the value, or "" when unset
Getenv(e, key) == e[key]

\* strconv.ParseBool: the accepted spellings; anything else is (false, error)
ParseBoolTrue == {"1", "t", "T", "TRUE", "true", "True"}
ParseBoolFalse == {"0", "f", "F", "FALSE", "false", "False"}
ParseBool(str) == [val |-> str \in ParseBoolTrue,
                   err |-> str \notin (ParseBoolTrue \cup ParseBoolFalse)]

\* getHTTPSHost without the fallback to APP_HTTP_HOST
getHTTPSHost_noHTTPFallback(e) ==
    LET host == Getenv(e, "APP_HTTPS_HOST")
    IN  IF host = "" THEN "localhost" ELSE host

getHTTPSHost(e) ==
    LET host1 == Getenv(e, "APP_HTTPS_HOST")
        host2 == IF host1 = "" THEN Getenv(e, "APP_HTTP_HOST") ELSE host1
    IN  IF host2 = "" THEN "localhost" ELSE host2

\* getHTTPHost looking at APP_HTTPS_HOST first
getHTTPHost_prefersHTTPS(e) ==
    LET host1 == Getenv(e, "APP_HTTPS_HOST")
        host2 == IF host1 = "" THEN Getenv(e, "APP_HTTP_HOST") ELSE host1
    IN  IF host2 = "" THEN "localhost" ELSE host2

getHTTPHost(e) ==
    LET host == Getenv(e, "APP_HTTP_HOST")
    IN  IF host = "" THEN "localhost" ELSE host

\* fmt.Sprintf("%s:%s", host, port)
HostPort(host, port) == host \o ":" \o port

\* Run without the fallback of lines 75-77
FallbackPort_none(p) == p

\* the port Run serves plaintext HTTP on
FallbackPort(p) == IF p = "" THEN "80" ELSE p

Registration(verb, route) == [verb |-> verb, path |-> route.Path, handlers |-> route.Handlers]

\* handleRoute with the put case calling PATCH
handleRoute_putAsPatch(route, engine) ==
    CASE route.Method = "get"     -> [engine EXCEPT !.regs = Append(@, Registration("GET", route))]
      [] route.Method = "post"    -> [engine EXCEPT !.regs = Append(@, Registration("POST", route))]
      [] route.Method = "delete"  -> [engine EXCEPT !.regs = Append(@, Registration("DELETE", route))]
      [] route.Method = "patch"   -> [engine EXCEPT !.regs = Append(@, Registration("PATCH", route))]
      [] route.Method = "put"     -> [engine EXCEPT !.regs = Append(@, Registration("PATCH", route))]
      [] route.Method = "options" -> [engine EXCEPT !.regs = Append(@, Registration("OPTIONS", route))]
      [] route.Method = "head"    -> [engine EXCEPT !.regs = Append(@, Registration("HEAD", route))]
      [] OTHER                    -> engine

\* handleRoute matching get in any case
handleRoute_anyCase(route, engine) ==
    CASE route.Method \in {"get", "GET", "Get"}
                                  -> [engine EXCEPT !.regs = Append(@, Registration("GET", route))]
      [] route.Method = "post"    -> [engine EXCEPT !.regs = Append(@, Registration("POST", route))]
      [] route.Method = "delete"  -> [engine EXCEPT !.regs = Append(@, Registration("DELETE", route))]
      [] route.Method = "patch"   -> [engine EXCEPT !.regs = Append(@, Registration("PATCH", route))]
      [] route.Method = "put"     -> [engine EXCEPT !.regs = Append(@, Registration("PUT", route))]
      [] route.Method = "options" -> [engine EXCEPT !.regs = Append(@, Registration("OPTIONS", route))]
      [] route.Method = "head"    -> [engine EXCEPT !.regs = Append(@, Registration("HEAD", route))]
      [] OTHER                    -> engine

\* the engine after handleRoute(route, engine)
handleRoute(route, engine) ==
    CASE route.Method = "get"     -> [engine EXCEPT !.regs = Append(@, Registration("GET", route))]
      [] route.Method = "post"    -> [engine EXCEPT !.regs = Append(@, Registration("POST", route))]
      [] route.Method = "delete"  -> [engine EXCEPT !.regs = Append(@, Registration("DELETE", route))]
      [] route.Method = "patch"   -> [engine EXCEPT !.regs = Append(@, Registration("PATCH", route))]
      [] route.Method = "put"     -> [engine EXCEPT !.regs = Append(@, Registration("PUT", route))]
      [] route.Method = "options" -> [engine EXCEPT !.regs = Append(@, Registration("OPTIONS", route))]
      [] route.Method = "head"    -> [engine EXCEPT !.regs = Append(@, Registration("HEAD", route))]
      [] OTHER                    -> engine

\* Use putting the handler in front of the chain
Use_prepend(engine, h) == [engine EXCEPT !.uses = <<h>> \o @]

\* engine.Use(h)
Use(engine, h) == [engine EXCEPT !.uses = Append(@, h)]

----------------------------------------------------------------------------
(* Initial states *)

InitRun ==
    /\ pc = "idle"
    /\ cur = "httpGinEngine"
    /\ i = 1
    /\ portArg = ""
    /\ portNumber = ""
    /\ logsFile = "unopened"
    /\ httpsOn = FALSE
    /\ redirectToHTTPS = FALSE
    /\ ginEngine = [e \in EngineNames |-> NoEngine]
    /\ tlsTask = NoTask

\* every combination of the switches and hosts, a router with few routes
Init ==
    /\ \E on \in HttpsOnValues, rd \in RedirectValues,
          hs \in HttpsHostValues, hp \in HttpHostValues :
          env = [k \in EnvKeys |->
                   CASE k = "APP_HTTPS_ON" -> on
                     [] k = "APP_REDIRECT_HTTP_TO_HTTPS" -> rd
                     [] k = "APP_HTTPS_HOST" -> hs
                     [] k = "APP_HTTP_HOST" -> hp
                     [] k = "APP_HTTPS_CERT_FILE_PATH" -> "cert.pem"
                     [] OTHER -> "key.pem"]
    /\ integrations \in SeqsUpTo(IntegrationNames, MaxIntegrations)
    /\ routes \in {s \in SeqsUpTo(FewRoutes, MaxRoutes) : NoRepeat(s)}
    /\ InitRun

\* a router with any of the method strings, HTTPS with redirect or no HTTPS
InitRoutes ==
    /\ \E on \in {"", "true"} :
          env = [k \in EnvKeys |->
                   CASE k \in {"APP_HTTPS_ON", "APP_REDIRECT_HTTP_TO_HTTPS"} -> on
                     [] OTHER -> ""]
    /\ integrations = <<"cors">>
    /\ routes \in {s \in SeqsUpTo(AllMethodRoutes, MaxRoutes) : NoRepeat(s)}
    /\ InitRun

----------------------------------------------------------------------------
(* Run, main path *)

Unchanged_inputs == UNCHANGED <<env, integrations, routes>>
Unchanged_port == UNCHANGED <<portArg, portNumber>>

\* lines 73-77: entry and port fallback
RunEnter ==
    /\ pc = "idle"
    /\ \E p \in PortValues : portArg' = p /\ portNumber' = FallbackPort(p)
    /\ pc' = "openLogsFile"
    /\ UNCHANGED <<cur, i, logsFile, httpsOn, redirectToHTTPS, ginEngine, tlsTask>>
    /\ Unchanged_inputs

\* lines 79-84: os.OpenFile succeeds
OpenLogsFile ==
    /\ pc = "openLogsFile"
    /\ logsFile' = "open"
    /\ pc' = "createEngines"
    /\ UNCHANGED <<cur, i, httpsOn, redirectToHTTPS, ginEngine, tlsTask>>
    /\ Unchanged_port
    /\ Unchanged_inputs

\* the error of os.OpenFile ignored
OpenLogsFilePanic_errorIgnored ==
    /\ pc = "openLogsFile"
    /\ logsFile' = "failed"
    /\ pc' = "createEngines"
    /\ UNCHANGED <<cur, i, httpsOn, redirectToHTTPS, ginEngine, tlsTask>>
    /\ Unchanged_port
    /\ Unchanged_inputs

\* lines 79-82: os.OpenFile fails, Run panics
OpenLogsFilePanic ==
    /\ pc = "openLogsFile"
    /\ logsFile' = "failed"
    /\ pc' = "panicked"
    /\ UNCHANGED <<cur, i, httpsOn, redirectToHTTPS, ginEngine, tlsTask>>
    /\ Unchanged_port
    /\ Unchanged_inputs

\* lines 87-88
CreateEngines ==
    /\ pc = "createEngines"
    /\ ginEngine' = [ginEngine EXCEPT !["httpGinEngine"] = NewEngine,
                                      !["httpsGinEngine"] = NewEngine]
    /\ pc' = "readSwitches"
    /\ UNCHANGED <<cur, i, logsFile, httpsOn, redirectToHTTPS, tlsTask>>
    /\ Unchanged_port
    /\ Unchanged_inputs

\* any non-empty APP_HTTPS_ON taken as true
ReadSwitches_nonEmptyIsTrue ==
    /\ pc = "readSwitches"
    /\ httpsOn' = (Getenv(env, "APP_HTTPS_ON") # "")
    /\ redirectToHTTPS' = ParseBool(Getenv(env, "APP_REDIRECT_HTTP_TO_HTTPS")).val
    /\ IF httpsOn'
       THEN pc' = "IntegratePackages" /\ cur' = "httpsGinEngine" /\ i' = 1
       ELSE pc' = "redirectCheck" /\ UNCHANGED <<cur, i>>
    /\ UNCHANGED <<logsFile, ginEngine, tlsTask>>
    /\ Unchanged_port
    /\ Unchanged_inputs

\* lines 90-93: both switches parsed, parse errors discarded; branch on httpsOn
ReadSwitches ==
    /\ pc = "readSwitches"
    /\ httpsOn' = ParseBool(Getenv(env, "APP_HTTPS_ON")).val
    /\ redirectToHTTPS' = ParseBool(Getenv(env, "APP_REDIRECT_HTTP_TO_HTTPS")).val
    /\ IF httpsOn'
       THEN pc' = "IntegratePackages" /\ cur' = "httpsGinEngine" /\ i' = 1
       ELSE pc' = "redirectCheck" /\ UNCHANGED <<cur, i>>
    /\ UNCHANGED <<logsFile, ginEngine, tlsTask>>
    /\ Unchanged_port
    /\ Unchanged_inputs

\* lines 161-163: one iteration of the loop of IntegratePackages
IntegratePackagesStep ==
    /\ pc = "IntegratePackages"
    /\ i <= Len(integrations)
    /\ ginEngine' = [ginEngine EXCEPT ![cur] = Use(@, integrations[i])]
    /\ i' = i + 1
    /\ UNCHANGED <<pc, cur, logsFile, httpsOn, redirectToHTTPS, tlsTask>>
    /\ Unchanged_port
    /\ Unchanged_inputs

\* line 165, then lines 96 / 127: the router is resolved
IntegratePackagesReturn ==
    /\ pc = "IntegratePackages"
    /\ i > Len(integrations)
    /\ pc' = "registerRoutes"
    /\ i' = 1
    /\ UNCHANGED <<cur, logsFile, httpsOn, redirectToHTTPS, ginEngine, tlsTask>>
    /\ Unchanged_port
    /\ Unchanged_inputs

\* lines 182-184: one iteration of the loop of registerRoutes
registerRoutesStep ==
    /\ pc = "registerRoutes"
    /\ i <= Len(routes)
    /\ ginEngine' = [ginEngine EXCEPT ![cur] = handleRoute(routes[i], @)]
    /\ i' = i + 1
    /\ UNCHANGED <<pc, cur, logsFile, httpsOn, redirectToHTTPS, tlsTask>>
    /\ Unchanged_port
    /\ Unchanged_inputs

\* line 186
registerRoutesReturn ==
    /\ pc = "registerRoutes"
    /\ i > Len(routes)
    /\ pc' = IF cur = "httpsGinEngine" THEN "goRunTLS" ELSE "httpRun"
    /\ UNCHANGED <<cur, i, logsFile, httpsOn, redirectToHTTPS, ginEngine, tlsTask>>
    /\ Unchanged_port
    /\ Unchanged_inputs

\* the goroutine started by line 101, with the arguments evaluated on the main path
SpawnedTask == [state |-> "spawned",
                host |-> getHTTPSHost(env) \o ":443",
                certFile |-> Getenv(env, "APP_HTTPS_CERT_FILE_PATH"),
                keyFile |-> Getenv(env, "APP_HTTPS_KEY_FILE_PATH")]

\* RunTLS called without go: the main path waits in it
GoRunTLS_inline ==
    /\ pc = "goRunTLS"
    /\ tlsTask' = SpawnedTask
    /\ pc' = "tlsBlocked"
    /\ UNCHANGED <<cur, i, logsFile, httpsOn, redirectToHTTPS, ginEngine>>
    /\ Unchanged_port
    /\ Unchanged_inputs

\* lines 98-101: go httpsGinEngine.RunTLS(host, certFile, keyFile); the main path goes on
GoRunTLS ==
    /\ pc = "goRunTLS"
    /\ tlsTask' = SpawnedTask
    /\ pc' = "redirectCheck"
    /\ UNCHANGED <<cur, i, logsFile, httpsOn, redirectToHTTPS, ginEngine>>
    /\ Unchanged_port
    /\ Unchanged_inputs

\* the redirect listener started with go: the main path does not wait for it
RedirectRun_inGoroutine ==
    /\ pc = "redirectCheck"
    /\ httpsOn /\ redirectToHTTPS
    /\ ginEngine' = [ginEngine EXCEPT !["redirectEngine"] =
                        [state |-> "listening", uses |-> <<"secureFunc">>, regs |-> <<>>,
                         addr |-> HostPort(getHTTPHost(env), portNumber)]]
    /\ pc' = "IntegratePackages"
    /\ cur' = "httpGinEngine"
    /\ i' = 1
    /\ UNCHANGED <<logsFile, httpsOn, redirectToHTTPS, tlsTask>>
    /\ Unchanged_port
    /\ Unchanged_inputs

\* lines 105-122: the redirect engine is built and run on the main path, which blocks in Run
RedirectRun ==
    /\ pc = "redirectCheck"
    /\ httpsOn /\ redirectToHTTPS
    /\ ginEngine' = [ginEngine EXCEPT !["redirectEngine"] =
                        [state |-> "listening", uses |-> <<"secureFunc">>, regs |-> <<>>,
                         addr |-> HostPort(getHTTPHost(env), portNumber)]]
    /\ pc' = "redirectBlocked"
    /\ UNCHANGED <<cur, i, logsFile, httpsOn, redirectToHTTPS, tlsTask>>
    /\ Unchanged_port
    /\ Unchanged_inputs

\* line 105, condition false
RedirectSkip ==
    /\ pc = "redirectCheck"
    /\ ~(httpsOn /\ redirectToHTTPS)
    /\ pc' = "IntegratePackages"
    /\ cur' = "httpGinEngine"
    /\ i' = 1
    /\ UNCHANGED <<logsFile, httpsOn, redirectToHTTPS, ginEngine, tlsTask>>
    /\ Unchanged_port
    /\ Unchanged_inputs

\* line 122 returns (the listener could not bind, or stopped serving); its error is dropped
RedirectReturn ==
    /\ pc = "redirectBlocked"
    /\ ginEngine' = [ginEngine EXCEPT !["redirectEngine"].state = "stopped"]
    /\ pc' = "IntegratePackages"
    /\ cur' = "httpGinEngine"
    /\ i' = 1
    /\ UNCHANGED <<logsFile, httpsOn, redirectToHTTPS, tlsTask>>
    /\ Unchanged_port
    /\ Unchanged_inputs

\* lines 129-130: the main path blocks in httpGinEngine.Run(host)
HttpRun ==
    /\ pc = "httpRun"
    /\ ginEngine' = [ginEngine EXCEPT !["httpGinEngine"].state = "listening",
                                      !["httpGinEngine"].addr = HostPort(getHTTPHost(env), portNumber)]
    /\ pc' = "httpBlocked"
    /\ UNCHANGED <<cur, i, logsFile, httpsOn, redirectToHTTPS, tlsTask>>
    /\ Unchanged_port
    /\ Unchanged_inputs

\* lines 130-131 and the defer of line 83: Run returns
HttpReturn ==
    /\ pc = "httpBlocked"
    /\ ginEngine' = [ginEngine EXCEPT !["httpGinEngine"].state = "stopped"]
    /\ logsFile' = "closed"
    /\ pc' = "returned"
    /\ UNCHANGED <<cur, i, httpsOn, redirectToHTTPS, tlsTask>>
    /\ Unchanged_port
    /\ Unchanged_inputs

----------------------------------------------------------------------------
(* Run, the goroutine of line 101 *)

\* RunTLS binds and serves
RunTLSListen ==
    /\ tlsTask.state = "spawned"
    /\ tlsTask' = [tlsTask EXCEPT !.state = "listening"]
    /\ ginEngine' = [ginEngine EXCEPT !["httpsGinEngine"].state = "listening",
                                      !["httpsGinEngine"].addr = tlsTask.host]
    /\ UNCHANGED <<pc, cur, i, logsFile, httpsOn, redirectToHTTPS>>
    /\ Unchanged_port
    /\ Unchanged_inputs

\* RunTLS returns its error (bad certificate, port in use, ...) to nobody
RunTLSReturn ==
    /\ tlsTask.state \in {"spawned", "listening"}
    /\ tlsTask' = [tlsTask EXCEPT !.state = "failed"]
    /\ ginEngine' = [ginEngine EXCEPT !["httpsGinEngine"].state = "stopped"]
    /\ UNCHANGED <<pc, cur, i, logsFile, httpsOn, redirectToHTTPS>>
    /\ Unchanged_port
    /\ Unchanged_inputs

----------------------------------------------------------------------------

MainNext ==
    \/ RunEnter
    \/ OpenLogsFile
    \/ OpenLogsFilePanic
    \/ CreateEngines
    \/ ReadSwitches
    \/ IntegratePackagesStep
    \/ IntegratePackagesReturn
    \/ registerRoutesStep
    \/ registerRoutesReturn
    \/ GoRunTLS
    \/ RedirectRun
    \/ RedirectSkip
    \/ RedirectReturn
    \/ HttpRun
    \/ HttpReturn

TaskNext ==
    \/ RunTLSListen
    \/ RunTLSReturn

Next == MainNext \/ TaskNext

\* the steps the main goroutine takes by itself; the two listeners return only
\* when serving ends
MainRun ==
    \/ RunEnter
    \/ OpenLogsFile
    \/ OpenLogsFilePanic
    \/ CreateEngines
    \/ ReadSwitches
    \/ IntegratePackagesStep
    \/ IntegratePackagesReturn
    \/ registerRoutesStep
    \/ registerRoutesReturn
    \/ GoRunTLS
    \/ RedirectRun
    \/ RedirectSkip
    \/ HttpRun

Spec == Init /\ [][Next]_vars

SpecRoutes == InitRoutes /\ [][Next]_vars

\* the Go scheduler keeps running a goroutine that is not blocked
FairSpec == Spec /\ WF_vars(MainRun)

TypeOK ==
    /\ pc \in {"idle", "openLogsFile", "panicked", "createEngines", "readSwitches",
               "IntegratePackages", "registerRoutes", "goRunTLS", "redirectCheck",
               "redirectBlocked", "httpRun", "httpBlocked", "returned"}
    /\ cur \in {"httpGinEngine", "httpsGinEngine"}
    /\ i \in 1..(MaxRoutes + MaxIntegrations + 1)
    /\ logsFile \in {"unopened", "open", "failed", "closed"}
    /\ httpsOn \in BOOLEAN /\ redirectToHTTPS \in BOOLEAN
    /\ \A e \in EngineNames : ginEngine[e].state \in {"none", "created", "listening", "stopped"}
    /\ tlsTask.state \in {"none", "spawned", "listening", "failed"}


----------------------------------------------------------------------------
(* Vocabulary of the properties *)

\* the HTTP verb a recognized method string stands for
VerbFor(m) ==
    CASE m = "get" -> "GET"
      [] m = "post" -> "POST"
      [] m = "delete" -> "DELETE"
      [] m = "patch" -> "PATCH"
      [] m = "put" -> "PUT"
      [] m = "options" -> "OPTIONS"
      [] m = "head" -> "HEAD"

Recognized(r) == r.Method \in RecognizedMethods

\* the spellings strconv.ParseBool reads as true
ParsesTrue(str) == str \in {"1", "t", "T", "TRUE", "true", "True"}

\* a step of the route loop that handles route routes[i] on engine cur
HandlesRoute == pc = "registerRoutes" /\ i <= Len(routes) /\ i' = i + 1

\* the registrations a list of routes leaves on an engine
RECURSIVE RegistrationsOf(_)
RegistrationsOf(rs) ==
    IF rs = <<>> THEN <<>>
    ELSE LET r == Head(rs)
         IN  (IF Recognized(r)
              THEN <<[verb |-> VerbFor(r.Method), path |-> r.Path, handlers |-> r.Handlers]>>
              ELSE <<>>) \o RegistrationsOf(Tail(rs))

\* the main path is past the route loop of engine e
RoutesDone(e) ==
    \/ ginEngine[e].state \in {"listening", "stopped"}
    \/ e = "httpsGinEngine" /\ tlsTask.state # "none"
    \/ e = "httpGinEngine" /\ pc = "httpRun"

Served(e) == ginEngine[e].state \in {"listening", "stopped"}

\* the host part the documentation gives for TLS serving
DocumentedHTTPSHost ==
    IF env["APP_HTTPS_HOST"] # "" THEN env["APP_HTTPS_HOST"]
    ELSE IF env["APP_HTTP_HOST"] # "" THEN env["APP_HTTP_HOST"]
    ELSE "localhost"

\* the host part the documentation gives for plaintext serving
DocumentedHTTPHost ==
    IF env["APP_HTTP_HOST"] # "" THEN env["APP_HTTP_HOST"] ELSE "localhost"

----------------------------------------------------------------------------
(* Properties *)

\* C1: handling a route whose Method is one of the seven recognized strings
\* appends exactly one registration to the engine in hand, under the verb of
\* that string, with the route's Path and its handlers in their order; the
\* other engines and the rest of that engine stay as they were.
C1_RecognizedRouteRegisteredOnce ==
    [][(HandlesRoute /\ Recognized(routes[i])) =>
          /\ ginEngine'[cur].regs =
                Append(ginEngine[cur].regs,
                       [verb |-> VerbFor(routes[i].Method),
                        path |-> routes[i].Path,
                        handlers |-> routes[i].Handlers])
          /\ ginEngine' = [ginEngine EXCEPT ![cur].regs = ginEngine'[cur].regs]]_vars

C1_Witness ==
    /\ pc = "httpBlocked"
    /\ Len(routes) = 2 /\ routes[1].Method = "put" /\ routes[2].Method = "options"
    /\ Len(ginEngine["httpGinEngine"].regs) = 2
    /\ ginEngine["httpGinEngine"].regs[2].handlers = <<"auth", "show">>

\* C2: handling a route whose Method is not one of the seven recognized
\* strings changes no engine and does not panic, and once the route loop of
\* an engine is over every recognized route of the list is registered on it.
C2_UnrecognizedRouteDropped ==
    /\ [][(HandlesRoute /\ ~Recognized(routes[i])) =>
             (ginEngine' = ginEngine /\ pc' = "registerRoutes" /\ tlsTask' = tlsTask)]_vars
    /\ [](\A e \in {"httpGinEngine", "httpsGinEngine"} :
             RoutesDone(e) =>
                 Len(ginEngine[e].regs) = Len(SelectSeq(routes, Recognized)))

C2_Witness ==
    /\ pc = "httpBlocked"
    /\ Len(routes) = 2 /\ routes[1].Method = "GET" /\ routes[2].Method = "get"
    /\ Len(ginEngine["httpGinEngine"].regs) = 1
    /\ ginEngine["httpGinEngine"].regs[1].verb = "GET"
    /\ ginEngine["httpGinEngine"].regs[1].path = routes[2].Path

\* C3: getHTTPSHost is APP_HTTPS_HOST when set, else APP_HTTP_HOST when set,
\* else localhost, and the host handed to RunTLS is that followed by :443.
C3_HTTPSHostFallback ==
    /\ getHTTPSHost(env) = DocumentedHTTPSHost
    /\ tlsTask.state # "none" => tlsTask.host = DocumentedHTTPSHost \o ":443"

C3_Witness ==
    /\ tlsTask.state = "listening"
    /\ env["APP_HTTPS_HOST"] = "" /\ env["APP_HTTP_HOST"] = "plain.example"
    /\ tlsTask.host = "plain.example:443"

\* C4: getHTTPHost is APP_HTTP_HOST when set and localhost otherwise, whatever
\* APP_HTTPS_HOST holds, and that is the host part of the plaintext address.
C4_HTTPHostIgnoresHTTPSHost ==
    /\ \A h \in HttpsHostValues \cup {"other.example"} :
          getHTTPHost([env EXCEPT !["APP_HTTPS_HOST"] = h]) = DocumentedHTTPHost
    /\ Served("httpGinEngine") =>
          ginEngine["httpGinEngine"].addr = DocumentedHTTPHost \o ":" \o portNumber

C4_Witness ==
    /\ ginEngine["httpGinEngine"].state = "listening"
    /\ env["APP_HTTPS_HOST"] = "secure.example" /\ env["APP_HTTP_HOST"] = ""
    /\ ginEngine["httpGinEngine"].addr = "localhost:8080"

\* C5 as stated: the plaintext listener's port is "80" exactly when the
\* portNumber argument is the empty string.
C5_PortIs80OnlyForEmptyArgument ==
    Served("httpGinEngine") =>
        /\ (portNumber = "80") <=> (portArg = "")
        /\ ginEngine["httpGinEngine"].addr = getHTTPHost(env) \o ":" \o portNumber

\* C5 amended: the port is "80" when the argument is empty and the argument
\* itself otherwise, so it is "80" exactly when the argument is "" or "80".
C5_PortFallback ==
    Served("httpGinEngine") =>
        /\ ginEngine["httpGinEngine"].addr =
              DocumentedHTTPHost \o ":" \o (IF portArg = "" THEN "80" ELSE portArg)
        /\ (portNumber = "80") <=> (portArg \in {"", "80"})

C5_Witness ==
    /\ ginEngine["httpGinEngine"].state = "listening"
    /\ portArg = "80"
    /\ ginEngine["httpGinEngine"].addr = "plain.example:80"

\* the main path sits in, or is past, one of its two blocking listeners
MainAtListener == pc \in {"redirectBlocked", "httpBlocked", "returned"}

\* everything the main path reads or writes
mainState == <<env, integrations, routes, pc, cur, i, portArg, portNumber, logsFile,
               httpsOn, redirectToHTTPS,
               ginEngine["httpGinEngine"], ginEngine["redirectEngine"]>>

\* C6: the HTTPS listener runs on a task of its own.  The main path goes on
\* from the go statement while the task has not begun to listen, no step of
\* the task (listening, failing, returning) changes anything the main path
\* holds, and whatever the task does the main path reaches its plaintext
\* listener.
C6_HTTPSTaskNeverObserved ==
    /\ [][(tlsTask.state = "none" /\ tlsTask'.state # "none") =>
             (tlsTask'.state = "spawned" /\ pc' = "redirectCheck")]_vars
    /\ [][(tlsTask.state # "none" /\ tlsTask' # tlsTask) => mainState' = mainState]_vars
    /\ [][(tlsTask.state # "failed" /\ tlsTask'.state = "failed" /\ Served("httpGinEngine")) =>
             ginEngine'["httpGinEngine"] = ginEngine["httpGinEngine"]]_vars
    /\ (tlsTask.state # "none") ~> MainAtListener

C6_Witness ==
    /\ tlsTask.state = "failed"
    /\ ginEngine["httpGinEngine"].state = "listening"
    /\ ginEngine["httpsGinEngine"].state = "stopped"

\* C7: when the log file cannot be opened Run panics at once: no engine
\* exists, nothing is integrated or registered, no task is started and no
\* listener of any kind is ever started in that run.
C7_LogFailureIsFatal ==
    logsFile = "failed" =>
        /\ pc = "panicked"
        /\ \A e \in EngineNames : ginEngine[e] = NoEngine
        /\ tlsTask = NoTask

C7_Witness ==
    /\ logsFile = "failed"
    /\ pc = "panicked"
    /\ env["APP_HTTPS_ON"] = "true"
    /\ Len(routes) = 2 /\ Len(integrations) = 2

\* C8: with HTTPS and the redirect both on, the redirect listener runs on the
\* main path at the plaintext host:port and the HTTP engine gets its
\* integrations, its routes and its listener, on that same address, only
\* after the redirect listener has returned; the redirect engine never has a
\* route.  With HTTPS off there is never a redirect listener.
C8_RedirectBeforeHTTP ==
    LET redirect == ginEngine["redirectEngine"]
        http == ginEngine["httpGinEngine"]
        httpTouched == http.uses # <<>> \/ http.regs # <<>> \/ Served("httpGinEngine")
                       \/ pc = "httpRun"
    IN  /\ redirect.regs = <<>>
        /\ redirect.state = "listening" =>
              /\ pc = "redirectBlocked"
              /\ redirect.addr = DocumentedHTTPHost \o ":" \o portNumber
              /\ http = NewEngine
        /\ (ParsesTrue(env["APP_HTTPS_ON"])
              /\ ParsesTrue(env["APP_REDIRECT_HTTP_TO_HTTPS"]) /\ httpTouched) =>
              redirect.state = "stopped"
        /\ (redirect.state = "stopped" /\ Served("httpGinEngine")) => http.addr = redirect.addr
        /\ ~ParsesTrue(env["APP_HTTPS_ON"]) => redirect = NoEngine

C8_Witness ==
    /\ ginEngine["redirectEngine"].state = "stopped"
    /\ ginEngine["httpGinEngine"].state = "listening"
    /\ ginEngine["httpGinEngine"].addr = ginEngine["redirectEngine"].addr
    /\ ginEngine["httpGinEngine"].regs # <<>>

\* s is a prefix of t
IsPrefix(s, t) == Len(s) <= Len(t) /\ s = SubSeq(t, 1, Len(s))

\* C9: on the HTTPS and the HTTP engine the integrations are added in the
\* integrator's order, all of them before the first route, and all routes
\* before the listener (or its task) is started; when both engines are served
\* they hold the same integrations and the same registrations.
C9_IntegrationsThenRoutesThenListen ==
    /\ \A e \in {"httpGinEngine", "httpsGinEngine"} :
          /\ IsPrefix(ginEngine[e].uses, integrations)
          /\ IsPrefix(ginEngine[e].regs, RegistrationsOf(routes))
          /\ ginEngine[e].regs # <<>> => ginEngine[e].uses = integrations
          /\ RoutesDone(e) =>
                /\ ginEngine[e].uses = integrations
                /\ ginEngine[e].regs = RegistrationsOf(routes)
    /\ (Served("httpGinEngine") /\ tlsTask.state # "none") =>
          /\ ginEngine["httpGinEngine"].uses = ginEngine["httpsGinEngine"].uses
          /\ ginEngine["httpGinEngine"].regs = ginEngine["httpsGinEngine"].regs

C9_Witness ==
    /\ ginEngine["httpGinEngine"].state = "listening"
    /\ ginEngine["httpsGinEngine"].state = "listening"
    /\ ginEngine["httpGinEngine"].uses = <<"session", "cors">>
    /\ Len(ginEngine["httpsGinEngine"].regs) = 2

\* the main path is past the if of lines 93-102
PastHTTPSBlock ==
    \/ pc \in {"redirectCheck", "redirectBlocked", "httpRun", "httpBlocked", "returned"}
    \/ pc \in {"IntegratePackages", "registerRoutes"} /\ cur = "httpGinEngine"

\* C10: the HTTPS task is started exactly when APP_HTTPS_ON parses as true.
\* Otherwise (unset, false, not a boolean) the HTTPS engine gets no integration,
\* no route and no task, the redirect is skipped, and the main path goes on to
\* start the HTTP listener.
C10_HTTPSOnlyWhenSwitchParsesTrue ==
    /\ [](~ParsesTrue(env["APP_HTTPS_ON"]) =>
             /\ tlsTask = NoTask
             /\ ginEngine["httpsGinEngine"] \in {NoEngine, NewEngine}
             /\ ginEngine["redirectEngine"] = NoEngine)
    /\ []((ParsesTrue(env["APP_HTTPS_ON"]) /\ PastHTTPSBlock) => tlsTask.state # "none")
    /\ (~ParsesTrue(env["APP_HTTPS_ON"]) /\ pc = "readSwitches")
          ~> Served("httpGinEngine")

C10_Witness ==
    /\ env["APP_HTTPS_ON"] = "yes"
    /\ ginEngine["httpGinEngine"].state = "listening"
    /\ ginEngine["httpsGinEngine"] = NewEngine
    /\ tlsTask = NoTask

=============================================================================
